---- MODULE Spec2Model ----
(***************************************************************************)
(* State-machine model of examples/clear_the_screen.rs: the construction   *)
(* of a HalState (HalState::new), the event-poll/draw loop of main, one    *)
(* frame (HalState::draw_clear_frame), wait_until_idle and the teardown    *)
(* (impl Drop for HalState followed by the drop of the remaining fields).  *)
(* Every call into gfx-hal / winit is a step whose result is chosen        *)
(* nondeterministically among the results the call's type allows.          *)
(***************************************************************************)
EXTENDS Integers, Sequences, FiniteSets, TLC

(***************************************************************************)
(* Bounds of the model.                                                    *)
(***************************************************************************)
MaxAdapters == 2
MaxQueueFamilies == 1
MaxFormats == 1
MaxCount == 5
MaxImages == 2
MaxEvents == 2
MaxFrames == 3
\* u32 is modelled with WordBits bits (TLC integers are 32-bit signed, so
\* 2^32 itself is not representable); MaxCount stays far below 2^WordBits.
WordBits == 16

U32Modulus == 2 ^ WordBits

VARIABLES
  pc,                          \* position of the single thread
  adapters,                    \* Vec returned by enumerate_adapters
  queue_families,              \* adapter.queue_families of the selected Adapter
  caps, present_modes, composite_alphas, preferred_formats,
  present_mode, composite_alpha, format, image_count, backbuffer,
  newErr,                      \* Err(&'static str) returned by HalState::new
  current_frame, frames_in_flight,
  in_flight_fences,            \* state of each fence, in Vec order
  render_finished_semaphores, image_available_semaphores,
  command_buffers, framebuffers, image_views,
  running, frame_size, mouse, pending,
  slot,                        \* index behind flight_fence/image_available/render_finished
  image_index, color, ops, drawResult,
  created, destroyed,          \* handles in creation / release order
  calls, iterDraws, closeSeen, idleCalls, idleAfterDraws, idleResult,
  exitReason

vars == << pc, adapters, queue_families, caps, present_modes, composite_alphas,
           preferred_formats, present_mode, composite_alpha, format,
           image_count, backbuffer, newErr, current_frame, frames_in_flight,
           in_flight_fences, render_finished_semaphores,
           image_available_semaphores, command_buffers, framebuffers,
           image_views, running, frame_size, mouse, pending, slot,
           image_index, color, ops, drawResult, created, destroyed, calls,
           iterDraws, closeSeen, idleCalls, idleAfterDraws, idleResult,
           exitReason >>

newLocals == << adapters, queue_families, caps, present_modes, composite_alphas,
                preferred_formats, present_mode, composite_alpha, format,
                image_count, backbuffer >>
halVecs == << in_flight_fences, render_finished_semaphores,
              image_available_semaphores, command_buffers, framebuffers,
              image_views >>
halFields == << current_frame, frames_in_flight, halVecs >>
mainLocals == << running, frame_size, mouse, pending >>
drawLocals == << slot, image_index, color, ops, drawResult >>
history == << calls, iterDraws, closeSeen, idleCalls, idleAfterDraws,
             idleResult, exitReason >>

None == "none"

SeqsUpTo(S, n) == UNION { [1..k -> S] : k \in 0..n }
Min(a, b) == IF a <= b THEN a ELSE b
Reverse(s) == [i \in 1..Len(s) |-> s[Len(s) + 1 - i]]
Prefix(s, k) == SubSeq(s, 1, k)

\* A handle is <<kind, index>>; Handles(kind, n) is a Vec of n of them.
Handle(kind) == << kind, 0 >>
Handles(kind, n) == [i \in 1..n |-> << kind, i - 1 >>]


(***************************************************************************)
(* Values returned by the graphics library.                                *)
(***************************************************************************)
QueueFamilySet == [graphics : BOOLEAN, max_queues : 0..1, surface_ok : BOOLEAN]
AdapterSet == [queue_families : SeqsUpTo(QueueFamilySet, MaxQueueFamilies)]
PresentModeSet == {"Mailbox", "Fifo", "Relaxed", "Immediate"}
CompositeAlphaSet == {"Opaque", "Inherit", "PreMultiplied", "PostMultiplied"}
FormatSet == {"Bgra8Srgb", "Bgra8Unorm"}
CapsSet == [image_count_start : 0..MaxCount, image_count_end : 0..MaxCount,
            color_attachment : BOOLEAN]
EventSet == {"CloseRequested", "Resized", "CursorMoved", "Other"}
InnerSizes == { <<0, 0>>, <<800, 600>> }
ResizedTo == <<400, 300>>
CursorAt == <<100, 150>>

\* Index of the first element of s satisfying P, 0 when there is none
\* (Iterator::find).
FindIndex(s, P(_)) ==
  IF \E i \in 1..Len(s) : P(s[i])
  THEN CHOOSE i \in 1..Len(s) : P(s[i]) /\ \A j \in 1..(i - 1) : ~P(s[j])
  ELSE 0

\* UsableQueueFamily without asking the surface.
UsableQueueFamily_AnySurface(qf) == qf.graphics /\ qf.max_queues > 0

\* The closure of lines 67 and 76.
UsableQueueFamily(qf) == qf.graphics /\ qf.max_queues > 0 /\ qf.surface_ok
\* The closure of lines 64-68.
GraphicalAdapter(a) ==
  \E i \in 1..Len(a.queue_families) : UsableQueueFamily(a.queue_families[i])

PresentModePreference == << "Mailbox", "Fifo", "Relaxed", "Immediate" >>
CompositeAlphaPreference == << "Opaque", "Inherit", "PreMultiplied", "PostMultiplied" >>

\* FirstSupported searching the preference list from its end (rfind).
FirstSupported_Last(preference, supported) ==
  LET Supported(x) == x \in supported
      i == FindIndex(Reverse(preference), Supported)
  IN IF i = 0 THEN None ELSE Reverse(preference)[i]

\* [..].iter().cloned().find(|x| supported.contains(x)): None when no entry
\* of the preference list is supported.
FirstSupported(preference, supported) ==
  LET Supported(x) == x \in supported
      i == FindIndex(preference, Supported)
  IN IF i = 0 THEN None ELSE preference[i]

IsSrgb(f) == f \in {"Rgba8Srgb", "Bgra8Srgb"}
\* Option<Vec<Format>>: << >> is None, << formats >> is Some(formats).
PreferredFormatsSet == { << >> } \cup { << fs >> : fs \in SeqsUpTo(FormatSet, MaxFormats) }
\* Lines 119-129; None when the preferred list is Some(empty).
ChooseFormat(preferred) ==
  IF preferred = << >> THEN "Rgba8Srgb"
  ELSE LET formats == preferred[1]
           i == FindIndex(formats, IsSrgb)
       IN IF i # 0 THEN formats[i]
          ELSE IF Len(formats) > 0 THEN formats[1] ELSE None

\* u32 subtraction as a release build computes it (wrapping).
WrappingSub(a, b) == (a - b) % U32Modulus
\* Lines 131-135.
SwapchainImageCount(end, mode) ==
  IF mode = "Mailbox" THEN Min(WrappingSub(end, 1), 3)
                      ELSE Min(WrappingSub(end, 1), 2)

\* Locals of HalState::new that have a destructor, released in reverse
\* order of declaration when new returns early or unwinds; the raw handles
\* (swapchain, render pass, views, ...) have none and are leaked.
DroppedLocals == {"instance", "surface", "adapter", "device", "queue_group"}
ReleasedOnErr(c) == Reverse(SelectSeq(c, LAMBDA h : h[1] \in DroppedLocals))

\* The three creations of one iteration of the loop of lines 245-249.
SyncOrder(n) ==
  [j \in 1..(3 * n) |->
     << CASE j % 3 = 1 -> "image_available_semaphore"
          [] j % 3 = 2 -> "render_finished_semaphore"
          [] OTHER     -> "fence",
        (j - 1) \div 3 >>]

Init ==
  /\ pc = "main"
  /\ adapters = << >> /\ queue_families = << >>
  /\ caps = None /\ present_modes = None /\ composite_alphas = None
  /\ preferred_formats = << >>
  /\ present_mode = None /\ composite_alpha = None /\ format = None
  /\ image_count = 0 /\ backbuffer = None
  /\ newErr = None
  /\ current_frame = 0 /\ frames_in_flight = 0
  /\ in_flight_fences = << >>
  /\ render_finished_semaphores = << >> /\ image_available_semaphores = << >>
  /\ command_buffers = << >> /\ framebuffers = << >> /\ image_views = << >>
  /\ running = TRUE /\ frame_size = <<0, 0>> /\ mouse = <<0, 0>>
  /\ pending = << >>
  /\ slot = 0 /\ image_index = 0 /\ color = None /\ ops = << >>
  /\ drawResult = None
  /\ created = << >> /\ destroyed = << >>
  /\ calls = 0 /\ iterDraws = 0 /\ closeSeen = FALSE
  /\ idleCalls = 0 /\ idleAfterDraws = 0 /\ idleResult = None
  /\ exitReason = None

(***************************************************************************)
(* HalState::new                                                           *)
(***************************************************************************)
\* The locals of new hold nothing (before the call, and once it returned).
NoLocals ==
  /\ adapters' = << >> /\ queue_families' = << >>
  /\ caps' = None /\ present_modes' = None /\ composite_alphas' = None
  /\ preferred_formats' = << >>
  /\ present_mode' = None /\ composite_alpha' = None /\ format' = None
  /\ image_count' = 0 /\ backbuffer' = None

\* `?` on an Err: new returns it; its locals are dropped.
NewErr(msg, createdNow) ==
  /\ pc' = "new_failed"
  /\ newErr' = msg
  /\ created' = createdNow
  /\ destroyed' = destroyed \o ReleasedOnErr(createdNow)
  /\ NoLocals

\* A step of new that succeeds, having created the handles hs.
NewOk(next, hs) ==
  /\ pc' = next
  /\ created' = created \o hs
  /\ UNCHANGED << newErr, destroyed >>

\* A panic inside new: the stack unwinds through its locals.
NewPanic ==
  /\ pc' = "panicked"
  /\ destroyed' = destroyed \o ReleasedOnErr(created)
  /\ NoLocals
  /\ UNCHANGED << newErr, created >>

\* main, lines 413-417: logger, window, then the call of HalState::new.
MainStart ==
  /\ pc = "main"
  /\ \E window_ok \in BOOLEAN :
       pc' = IF window_ok THEN "new_instance" ELSE "panicked"
  /\ UNCHANGED << newLocals, newErr, halFields, mainLocals, drawLocals,
                  created, destroyed, history >>

\* Lines 55-58.
CreateInstanceAndSurface ==
  /\ pc = "new_instance"
  /\ NewOk("new_adapters", << Handle("instance"), Handle("surface") >>)
  /\ UNCHANGED << newLocals, halFields, mainLocals, drawLocals, history >>

\* Line 62.
EnumerateAdapters ==
  /\ pc = "new_adapters"
  /\ adapters' \in SeqsUpTo(AdapterSet, MaxAdapters)
  /\ NewOk("new_select", << >>)
  /\ UNCHANGED << queue_families, caps, present_modes, composite_alphas,
                  preferred_formats, present_mode, composite_alpha, format,
                  image_count, backbuffer, halFields, mainLocals, drawLocals,
                  history >>

\* Lines 63-69: into_iter().find(..).ok_or(..)?; the Vec is consumed.
SelectAdapter ==
  /\ pc = "new_select"
  /\ LET i == FindIndex(adapters, GraphicalAdapter)
     IN IF i = 0
        THEN NewErr("Couldn't find a graphical Adapter!", created)
        ELSE /\ NewOk("new_device", << Handle("adapter") >>)
             /\ queue_families' = adapters[i].queue_families
             /\ adapters' = << >>
             /\ UNCHANGED << caps, present_modes, composite_alphas,
                             preferred_formats, present_mode, composite_alpha,
                             format, image_count, backbuffer >>
  /\ UNCHANGED << halFields, mainLocals, drawLocals, history >>

\* Lines 72-93; adapter.queue_families is not read again.
OpenDevice ==
  /\ pc = "new_device"
  /\ IF FindIndex(queue_families, UsableQueueFamily) = 0
     THEN NewErr("Couldn't find a QueueFamily with graphics!", created)
     ELSE \E outcome \in {"ok", "open_err", "take_none", "no_queues"} :
            CASE outcome = "open_err" ->
                   NewErr("Couldn't open the PhysicalDevice!", created)
              [] outcome = "take_none" ->
                   NewErr("Couldn't take ownership of the QueueGroup!",
                          created \o << Handle("device") >>)
              [] outcome = "no_queues" ->
                   NewErr("The QueueGroup did not have any CommandQueues available!",
                          created \o << Handle("device"), Handle("queue_group") >>)
              [] OTHER ->
                   /\ NewOk("new_compat", << Handle("device"), Handle("queue_group") >>)
                   /\ queue_families' = << >>
                   /\ UNCHANGED << adapters, caps, present_modes,
                                   composite_alphas, preferred_formats,
                                   present_mode, composite_alpha, format,
                                   image_count, backbuffer >>
  /\ UNCHANGED << halFields, mainLocals, drawLocals, history >>

\* Line 97.
Compatibility ==
  /\ pc = "new_compat"
  /\ caps' \in CapsSet
  /\ present_modes' \in SUBSET PresentModeSet
  /\ composite_alphas' \in SUBSET CompositeAlphaSet
  /\ preferred_formats' \in PreferredFormatsSet
  /\ NewOk("new_present_mode", << >>)
  /\ UNCHANGED << adapters, queue_families, present_mode, composite_alpha,
                  format, image_count, backbuffer, halFields, mainLocals,
                  drawLocals, history >>

\* Lines 103-110; present_modes is not read again.
PickPresentMode ==
  /\ pc = "new_present_mode"
  /\ LET pm == FirstSupported(PresentModePreference, present_modes)
     IN IF pm = None
        THEN NewErr("No PresentMode values specified!", created)
        ELSE /\ NewOk("new_composite_alpha", << >>)
             /\ present_mode' = pm
             /\ present_modes' = None
             /\ UNCHANGED << adapters, queue_families, caps, composite_alphas,
                             preferred_formats, composite_alpha, format,
                             image_count, backbuffer >>
  /\ UNCHANGED << halFields, mainLocals, drawLocals, history >>

\* Lines 111-118; composite_alphas is not read again.
PickCompositeAlpha ==
  /\ pc = "new_composite_alpha"
  /\ LET ca == FirstSupported(CompositeAlphaPreference, composite_alphas)
     IN IF ca = None
        THEN NewErr("No CompositeAlpha values specified!", created)
        ELSE /\ NewOk("new_format", << >>)
             /\ composite_alpha' = ca
             /\ composite_alphas' = None
             /\ UNCHANGED << adapters, queue_families, caps, present_modes,
                             preferred_formats, present_mode, format,
                             image_count, backbuffer >>
  /\ UNCHANGED << halFields, mainLocals, drawLocals, history >>

\* Lines 119-129; preferred_formats is moved into the match.
PickFormat ==
  /\ pc = "new_format"
  /\ LET f == ChooseFormat(preferred_formats)
     IN IF f = None
        THEN NewErr("Preferred format list was empty!", created)
        ELSE /\ NewOk("new_image_count", << >>)
             /\ format' = f
             /\ preferred_formats' = << >>
             /\ UNCHANGED << adapters, queue_families, caps, present_modes,
                             composite_alphas, present_mode, composite_alpha,
                             image_count, backbuffer >>
  /\ UNCHANGED << halFields, mainLocals, drawLocals, history >>

\* Lines 130-135.  caps.image_count.end - 1 with end = 0 overflows u32: a
\* build with overflow checks panics there, a build without them wraps.
ComputeImageCount ==
  /\ pc = "new_image_count"
  /\ \E overflow_checks \in BOOLEAN :
       IF caps.image_count_end = 0 /\ overflow_checks
       THEN NewPanic
       ELSE /\ NewOk("new_image_usage", << >>)
            /\ image_count' = SwapchainImageCount(caps.image_count_end, present_mode)
            /\ UNCHANGED << adapters, queue_families, caps, present_modes,
                            composite_alphas, preferred_formats, present_mode,
                            composite_alpha, format, backbuffer >>
  /\ UNCHANGED << halFields, mainLocals, drawLocals, history >>

\* Lines 136-141.
CheckImageUsage ==
  /\ pc = "new_image_usage"
  /\ IF caps.color_attachment
     THEN NewOk("new_swapchain", << >>) /\ UNCHANGED newLocals
     ELSE NewErr("The Surface isn't capable of supporting color!", created)
  /\ UNCHANGED << halFields, mainLocals, drawLocals, history >>

\* Lines 142-159: the block ends here (caps goes out of scope) and
\* frames_in_flight is image_count.
CreateSwapchain ==
  /\ pc = "new_swapchain"
  /\ \E bb \in {[kind |-> "Err", n |-> 0], [kind |-> "Framebuffer", n |-> 0]}
               \cup {[kind |-> "Images", n |-> n] : n \in 0..MaxImages} :
       IF bb.kind = "Err"
       THEN /\ NewErr("Failed to create the swapchain!", created)
            /\ UNCHANGED frames_in_flight
       ELSE /\ NewOk("new_render_pass", << Handle("swapchain") >>)
            /\ backbuffer' = bb
            /\ frames_in_flight' = image_count
            /\ caps' = None
            /\ UNCHANGED << adapters, queue_families, present_modes,
                            composite_alphas, preferred_formats, present_mode,
                            composite_alpha, format, image_count >>
  /\ UNCHANGED << current_frame, halVecs, mainLocals, drawLocals, history >>

\* Lines 162-185.
CreateRenderPass ==
  /\ pc = "new_render_pass"
  /\ \E ok \in BOOLEAN :
       IF ok THEN /\ NewOk("new_image_views", << Handle("render_pass") >>)
                  /\ UNCHANGED newLocals
             ELSE NewErr("Couldn't create a render pass!", created)
  /\ UNCHANGED << halFields, mainLocals, drawLocals, history >>

\* Lines 188-208: k views are created before the first failure (k = n: none).
CreateImageViews ==
  /\ pc = "new_image_views"
  /\ IF backbuffer.kind = "Framebuffer"
     THEN /\ NewPanic
          /\ UNCHANGED image_views
     ELSE \E k \in 0..backbuffer.n :
            IF k = backbuffer.n
            THEN /\ NewOk("new_framebuffers", Handles("image_view", k))
                 /\ image_views' = Handles("image_view", k)
                 /\ backbuffer' = None
                 /\ UNCHANGED << adapters, queue_families, caps, present_modes,
                                 composite_alphas, preferred_formats,
                                 present_mode, composite_alpha, format,
                                 image_count >>
            ELSE /\ NewErr("Couldn't create the image_view for the image!",
                           created \o Handles("image_view", k))
                 /\ UNCHANGED image_views
  /\ UNCHANGED << current_frame, frames_in_flight, in_flight_fences,
                  render_finished_semaphores, image_available_semaphores,
                  command_buffers, framebuffers, mainLocals, drawLocals,
                  history >>

\* Lines 211-228.
CreateFramebuffers ==
  /\ pc = "new_framebuffers"
  /\ \E k \in 0..Len(image_views) :
       IF k = Len(image_views)
       THEN /\ NewOk("new_command_pool", Handles("framebuffer", k))
            /\ framebuffers' = Handles("framebuffer", k)
            /\ UNCHANGED newLocals
       ELSE /\ NewErr("Failed to create a framebuffer!",
                      created \o Handles("framebuffer", k))
            /\ UNCHANGED framebuffers
  /\ UNCHANGED << current_frame, frames_in_flight, in_flight_fences,
                  render_finished_semaphores, image_available_semaphores,
                  command_buffers, image_views, mainLocals, drawLocals,
                  history >>

\* Lines 231-235.
CreateCommandPool ==
  /\ pc = "new_command_pool"
  /\ \E ok \in BOOLEAN :
       IF ok THEN /\ NewOk("new_command_buffers", << Handle("command_pool") >>)
                  /\ UNCHANGED newLocals
             ELSE NewErr("Could not create the raw command pool!", created)
  /\ UNCHANGED << halFields, mainLocals, drawLocals, history >>

\* Line 238.
AcquireCommandBuffers ==
  /\ pc = "new_command_buffers"
  /\ command_buffers' = Handles("command_buffer", Len(framebuffers))
  /\ NewOk("new_sync", Handles("command_buffer", Len(framebuffers)))
  /\ UNCHANGED << newLocals, current_frame, frames_in_flight,
                  in_flight_fences, render_finished_semaphores,
                  image_available_semaphores, framebuffers, image_views,
                  mainLocals, drawLocals, history >>

\* Lines 241-251: k creations succeed before the first failure; every fence
\* is created signaled (create_fence(true)).
CreateSyncPrimitives ==
  /\ pc = "new_sync"
  /\ LET n == Len(command_buffers)
     IN \E k \in 0..(3 * n) :
          IF k = 3 * n
          THEN /\ NewOk("new_return", SyncOrder(n))
               /\ image_available_semaphores' = Handles("image_available_semaphore", n)
               /\ render_finished_semaphores' = Handles("render_finished_semaphore", n)
               /\ in_flight_fences' = [i \in 1..n |-> "signaled"]
               /\ UNCHANGED newLocals
          ELSE /\ NewErr(IF k % 3 = 2 THEN "Could not create a fence!"
                                      ELSE "Could not create a semaphore!",
                         created \o Prefix(SyncOrder(n), k))
               /\ UNCHANGED << image_available_semaphores,
                               render_finished_semaphores, in_flight_fences >>
  /\ UNCHANGED << current_frame, frames_in_flight, command_buffers,
                  framebuffers, image_views, mainLocals, drawLocals, history >>

\* Lines 253-272 and main lines 417-428: the HalState is built and main
\* sets up the locals of the loop; the locals of new are gone.
NewReturn ==
  /\ pc = "new_return"
  /\ current_frame' = 0
  /\ running' = TRUE
  /\ frame_size' \in InnerSizes
  /\ mouse' = <<0, 0>>
  /\ NoLocals
  /\ pc' = "poll"
  /\ UNCHANGED << newErr, frames_in_flight, halVecs, pending, drawLocals,
                  created, destroyed, history >>

\* main, lines 417-420: Err(e) => panic!(e).
MainNewErr ==
  /\ pc = "new_failed"
  /\ pc' = "panicked"
  /\ UNCHANGED << newLocals, newErr, halFields, mainLocals, drawLocals,
                  created, destroyed, history >>

NewStep ==
  \/ CreateInstanceAndSurface \/ EnumerateAdapters \/ SelectAdapter
  \/ OpenDevice \/ Compatibility \/ PickPresentMode \/ PickCompositeAlpha
  \/ PickFormat \/ ComputeImageCount \/ CheckImageUsage \/ CreateSwapchain
  \/ CreateRenderPass \/ CreateImageViews \/ CreateFramebuffers
  \/ CreateCommandPool \/ AcquireCommandBuffers \/ CreateSyncPrimitives
  \/ NewReturn

(***************************************************************************)
(* main: the event-poll/draw loop                                          *)
(***************************************************************************)
\* Line 431: poll_events takes the events that are pending.  Once MaxFrames
\* frames were drawn the model only follows polls that close the window.
PollEvents ==
  /\ pc = "poll"
  /\ \E evs \in SeqsUpTo(EventSet, MaxEvents) :
       /\ calls >= MaxFrames => \E i \in 1..Len(evs) : evs[i] = "CloseRequested"
       /\ pending' = evs
  /\ iterDraws' = 0
  /\ pc' = "poll_callback"
  /\ UNCHANGED << newLocals, newErr, halFields, running, frame_size, mouse,
                  drawLocals, created, destroyed, calls, closeSeen, idleCalls,
                  idleAfterDraws, idleResult, exitReason >>

\* HandleEvent with `running` recomputed from every event, so that an event
\* after CloseRequested sets it again.
HandleEvent_Overwrite ==
  /\ pc = "poll_callback"
  /\ pending # << >>
  /\ LET event == Head(pending)
     IN /\ running' = (event # "CloseRequested")
        /\ closeSeen' = (closeSeen \/ event = "CloseRequested")
        /\ frame_size' = IF event = "Resized" THEN ResizedTo ELSE frame_size
        /\ mouse' = IF event = "CursorMoved" THEN CursorAt ELSE mouse
  /\ pending' = Tail(pending)
  /\ UNCHANGED << pc, newLocals, newErr, halFields, drawLocals, created,
                  destroyed, calls, iterDraws, idleCalls, idleAfterDraws,
                  idleResult, exitReason >>

\* Lines 431-451: the closure, called with the next pending event.
HandleEvent ==
  /\ pc = "poll_callback"
  /\ pending # << >>
  /\ LET event == Head(pending)
     IN /\ running' = IF event = "CloseRequested" THEN FALSE ELSE running
        /\ closeSeen' = (closeSeen \/ event = "CloseRequested")
        /\ frame_size' = IF event = "Resized" THEN ResizedTo ELSE frame_size
        /\ mouse' = IF event = "CursorMoved" THEN CursorAt ELSE mouse
  /\ pending' = Tail(pending)
  /\ UNCHANGED << pc, newLocals, newErr, halFields, drawLocals, created,
                  destroyed, calls, iterDraws, idleCalls, idleAfterDraws, idleResult,
                  exitReason >>

\* r = mouse_x / frame_width and g = mouse_y / frame_height, kept as
\* (numerator, denominator); b and a are functions of them (lines 458-461).
ClearColor == [r |-> << mouse[1], frame_size[1] >>, g |-> << mouse[2], frame_size[2] >>]

\* Lines 452-463: poll_events has returned; break, or call draw_clear_frame.
LoopCheck ==
  /\ pc = "poll_callback"
  /\ pending = << >>
  /\ IF ~running
     THEN /\ pc' = "wait_idle"
          /\ exitReason' = "close"
          /\ UNCHANGED color
     ELSE /\ pc' = "draw_begin"
          /\ color' = ClearColor
          /\ UNCHANGED exitReason
  /\ UNCHANGED << newLocals, newErr, halFields, mainLocals, slot, image_index,
                  ops, drawResult, created, destroyed, calls, iterDraws,
                  closeSeen, idleCalls, idleAfterDraws, idleResult >>

\* MainAfterDraw with the error only logged: the loop goes on to the next poll.
MainAfterDraw_Continue ==
  /\ pc = "draw_returned"
  /\ pc' = "poll"
  /\ UNCHANGED << newLocals, newErr, halFields, mainLocals, drawLocals,
                  created, destroyed, history >>

\* MainAfterDraw returning from main on the error: wait_until_idle is skipped.
MainAfterDraw_ReturnEarly ==
  /\ pc = "draw_returned"
  /\ IF drawResult # "Ok"
     THEN /\ pc' = "drop"
          /\ exitReason' = "draw_error"
     ELSE /\ pc' = "poll"
          /\ UNCHANGED exitReason
  /\ UNCHANGED << newLocals, newErr, halFields, mainLocals, drawLocals,
                  created, destroyed, calls, iterDraws, closeSeen, idleCalls,
                  idleAfterDraws, idleResult >>

\* Lines 463-467.
MainAfterDraw ==
  /\ pc = "draw_returned"
  /\ IF drawResult # "Ok"
     THEN /\ pc' = "wait_idle"
          /\ exitReason' = "draw_error"
     ELSE /\ pc' = "poll"
          /\ UNCHANGED exitReason
  /\ UNCHANGED << newLocals, newErr, halFields, mainLocals, drawLocals,
                  created, destroyed, calls, iterDraws, closeSeen, idleCalls,
                  idleAfterDraws, idleResult >>

\* Line 275: draw_clear_frame is a public method of HalState, so a caller
\* other than main may call it again after a call has returned, whatever the
\* result was.
CallAgain ==
  /\ pc = "draw_returned"
  /\ calls < MaxFrames
  /\ pc' = "draw_begin"
  /\ UNCHANGED << newLocals, newErr, halFields, mainLocals, drawLocals,
                  created, destroyed, history >>

(***************************************************************************)
(* HalState::draw_clear_frame                                              *)
(***************************************************************************)
DrawErr(msg) ==
  /\ drawResult' = msg
  /\ pc' = "draw_returned"

\* NextFrame without the wrap-around.
NextFrame_NoWrap(cf, in_flight) == cf + 1

\* The frame index after a call that started at index cf (line 281).
NextFrame(cf, in_flight) == (cf + 1) % in_flight

\* Lines 275-281.  Indexing a Vec out of range and `%` by zero panic; the
\* panic unwinds main, which drops the HalState.
DrawBegin ==
  /\ pc = "draw_begin"
  /\ calls' = calls + 1
  /\ iterDraws' = iterDraws + 1
  /\ ops' = << >>
  /\ drawResult' = None
  /\ IF \/ current_frame >= Len(in_flight_fences)
        \/ current_frame >= Len(image_available_semaphores)
        \/ current_frame >= Len(render_finished_semaphores)
        \/ frames_in_flight = 0
     THEN /\ pc' = "unwind"
          /\ exitReason' = "panic"
          /\ UNCHANGED << slot, current_frame >>
     ELSE /\ pc' = "draw_wait"
          /\ slot' = current_frame
          /\ current_frame' = NextFrame(current_frame, frames_in_flight)
          /\ UNCHANGED exitReason
  /\ UNCHANGED << newLocals, newErr, frames_in_flight, halVecs, mainLocals,
                  image_index, color, created, destroyed, closeSeen,
                  idleCalls, idleAfterDraws, idleResult >>

\* Lines 284-287: returns once the fence is signaled (the timeout is
\* u64::MAX), or with an error.
DrawWaitFence ==
  /\ pc = "draw_wait"
  /\ \E ok \in BOOLEAN :
       /\ ok => in_flight_fences[slot + 1] = "signaled"
       /\ ops' = Append(ops, [op |-> "wait_for_fence", fence |-> << "fence", slot >>, ok |-> ok])
       /\ IF ok THEN pc' = "draw_reset" /\ UNCHANGED drawResult
                ELSE DrawErr("Failed to wait on the fence!")
  /\ UNCHANGED << newLocals, newErr, halFields, mainLocals, slot, image_index,
                  color, created, destroyed, history >>

\* Lines 288-291.
DrawResetFence ==
  /\ pc = "draw_reset"
  /\ \E ok \in BOOLEAN :
       /\ ops' = Append(ops, [op |-> "reset_fence", fence |-> << "fence", slot >>, ok |-> ok])
       /\ IF ok THEN /\ pc' = "draw_acquire"
                     /\ in_flight_fences' = [in_flight_fences EXCEPT ![slot + 1] = "unsignaled"]
                     /\ UNCHANGED drawResult
                ELSE /\ DrawErr("Couldn't reset the fence!")
                     /\ UNCHANGED in_flight_fences
  /\ UNCHANGED << newLocals, newErr, current_frame, frames_in_flight,
                  render_finished_semaphores, image_available_semaphores,
                  command_buffers, framebuffers, image_views, mainLocals, slot,
                  image_index, color, created, destroyed, history >>

\* Lines 292-297: the swapchain hands out the index of one of its images
\* (-1 stands for Err).
DrawAcquireImage ==
  /\ pc = "draw_acquire"
  /\ \E i \in -1..(Len(image_views) - 1) :
       /\ ops' = Append(ops, [op |-> "acquire_image",
                              sync |-> image_available_semaphores[slot + 1],
                              image |-> i, ok |-> (i >= 0)])
       /\ IF i >= 0 THEN /\ pc' = "draw_record"
                         /\ image_index' = i
                         /\ UNCHANGED drawResult
                    ELSE /\ DrawErr("Couldn't acquire an image from the swapchain!")
                         /\ UNCHANGED image_index
  /\ UNCHANGED << newLocals, newErr, halFields, mainLocals, slot, color,
                  created, destroyed, history >>

\* Lines 300-311.
DrawRecord ==
  /\ pc = "draw_record"
  /\ IF image_index >= Len(command_buffers) \/ image_index >= Len(framebuffers)
     THEN /\ pc' = "unwind"
          /\ exitReason' = "panic"
          /\ UNCHANGED ops
     ELSE /\ pc' = "draw_submit"
          /\ ops' = Append(ops, [op |-> "record",
                                 buffer |-> command_buffers[image_index + 1],
                                 framebuffer |-> framebuffers[image_index + 1],
                                 clear |-> color])
          /\ UNCHANGED exitReason
  /\ UNCHANGED << newLocals, newErr, halFields, mainLocals, slot, image_index,
                  color, drawResult, created, destroyed, calls, iterDraws,
                  closeSeen, idleCalls, idleAfterDraws, idleResult >>

\* Lines 314-326: the submission signals flight_fence when the GPU is done.
DrawSubmit ==
  /\ pc = "draw_submit"
  /\ ops' = Append(ops, [op |-> "submit",
                         buffer |-> command_buffers[image_index + 1],
                         wait |-> image_available_semaphores[slot + 1],
                         signal |-> render_finished_semaphores[slot + 1],
                         fence |-> << "fence", slot >>])
  /\ in_flight_fences' = [in_flight_fences EXCEPT ![slot + 1] = "pending"]
  /\ pc' = "draw_present"
  /\ UNCHANGED << newLocals, newErr, current_frame, frames_in_flight,
                  render_finished_semaphores, image_available_semaphores,
                  command_buffers, framebuffers, image_views, mainLocals, slot,
                  image_index, color, drawResult, created, destroyed, history >>

\* DrawPresent waiting on the image_available semaphore instead.
DrawPresent_WrongSemaphore ==
  /\ pc = "draw_present"
  /\ \E ok \in BOOLEAN :
       /\ ops' = Append(ops, [op |-> "present", image |-> image_index,
                              wait |-> image_available_semaphores[slot + 1],
                              ok |-> ok])
       /\ DrawErr(IF ok THEN "Ok" ELSE "Failed to present into the swapchain!")
  /\ UNCHANGED << newLocals, newErr, halFields, mainLocals, slot, image_index,
                  color, created, destroyed, history >>

\* Lines 327-331.
DrawPresent ==
  /\ pc = "draw_present"
  /\ \E ok \in BOOLEAN :
       /\ ops' = Append(ops, [op |-> "present", image |-> image_index,
                              wait |-> render_finished_semaphores[slot + 1],
                              ok |-> ok])
       /\ DrawErr(IF ok THEN "Ok" ELSE "Failed to present into the swapchain!")
  /\ UNCHANGED << newLocals, newErr, halFields, mainLocals, slot, image_index,
                  color, created, destroyed, history >>

DrawStep ==
  \/ DrawBegin \/ DrawWaitFence \/ DrawResetFence \/ DrawAcquireImage
  \/ DrawRecord \/ DrawSubmit \/ DrawPresent

\* The GPU finishes a submission and signals its fence.
GpuComplete ==
  /\ pc \notin {"exited", "panicked"}
  /\ \E i \in 1..Len(in_flight_fences) :
       /\ in_flight_fences[i] = "pending"
       /\ in_flight_fences' = [in_flight_fences EXCEPT ![i] = "signaled"]
  /\ UNCHANGED << pc, newLocals, newErr, current_frame, frames_in_flight,
                  render_finished_semaphores, image_available_semaphores,
                  command_buffers, framebuffers, image_views, mainLocals,
                  drawLocals, created, destroyed, history >>

(***************************************************************************)
(* Shutdown                                                                *)
(***************************************************************************)
\* main lines 469-473 and lines 335-337: device.wait_idle() returns when
\* every submission has completed, or with an error that is only logged.
WaitUntilIdle ==
  /\ pc = "wait_idle"
  /\ \E ok \in BOOLEAN :
       /\ in_flight_fences' =
            IF ok THEN [i \in 1..Len(in_flight_fences) |->
                          IF in_flight_fences[i] = "pending" THEN "signaled"
                                                             ELSE in_flight_fences[i]]
                  ELSE in_flight_fences
       /\ idleResult' = IF ok THEN "Ok" ELSE "Err"
  /\ idleCalls' = idleCalls + 1
  /\ idleAfterDraws' = calls
  /\ pc' = "drop"
  /\ UNCHANGED << newLocals, newErr, current_frame, frames_in_flight,
                  render_finished_semaphores, image_available_semaphores,
                  command_buffers, framebuffers, image_views, mainLocals,
                  drawLocals, created, destroyed, calls, iterDraws, closeSeen,
                  exitReason >>

\* The body of Drop::drop, lines 343-372, in program order.
DropBody ==
  Handles("fence", Len(in_flight_fences))
  \o render_finished_semaphores
  \o image_available_semaphores
  \o framebuffers
  \o image_views
  \o << Handle("command_pool"), Handle("render_pass"), Handle("swapchain"),
        Handle("device"), Handle("instance") >>

\* After drop() returns the fields are dropped in declaration order (lines
\* 34-50).  The drained Vecs are empty and the ManuallyDrop fields are
\* skipped, which leaves command_buffers, queue_group, _adapter, _surface.
FieldDrops ==
  command_buffers
  \o << Handle("queue_group"), Handle("adapter"), Handle("surface") >>

\* hal_state goes out of scope: at the end of main (line 474) or while a
\* panic unwinds main.
DropHalState ==
  /\ pc \in {"drop", "unwind"}
  /\ destroyed' = destroyed \o DropBody \o FieldDrops
  /\ in_flight_fences' = << >>
  /\ render_finished_semaphores' = << >>
  /\ image_available_semaphores' = << >>
  /\ framebuffers' = << >>
  /\ image_views' = << >>
  /\ command_buffers' = << >>
  /\ pc' = IF pc = "drop" THEN "exited" ELSE "panicked"
  /\ UNCHANGED << newLocals, newErr, current_frame, frames_in_flight,
                  mainLocals, drawLocals, created, history >>

Next ==
  \/ MainStart \/ NewStep \/ MainNewErr
  \/ PollEvents \/ HandleEvent \/ LoopCheck \/ MainAfterDraw
  \/ DrawStep \/ GpuComplete
  \/ WaitUntilIdle \/ DropHalState

Spec == Init /\ [][Next]_vars

\* Any sequence of draw_clear_frame calls on a HalState: the behaviours of
\* main, and those of a caller that calls again after a returned call.  The
\* GPU eventually completes every submitted command buffer.
NextCalls == Next \/ CallAgain

SpecCalls == Init /\ [][NextCalls]_vars /\ WF_vars(GpuComplete)

(***************************************************************************)
(* Properties                                                              *)
(***************************************************************************)
NewPcs ==
  {"main", "new_instance", "new_adapters", "new_select", "new_device",
   "new_compat", "new_present_mode", "new_composite_alpha", "new_format",
   "new_image_count", "new_image_usage", "new_swapchain", "new_render_pass",
   "new_image_views", "new_framebuffers", "new_command_pool",
   "new_command_buffers", "new_sync", "new_return", "new_failed"}
InCallPcs ==
  {"draw_wait", "draw_reset", "draw_acquire", "draw_record", "draw_submit",
   "draw_present"}
LoopPcs == {"poll", "poll_callback", "draw_begin"} \cup InCallPcs
DrawFailed == drawResult \notin {None, "Ok"}

\* C1: once a call of draw_clear_frame has returned Err, no further call is
\* made: the number of calls stays as it is, the Err stays the last result
\* and control is outside the loop as soon as main has looked at the result
\* (the same iteration: no poll and no draw step follows the failed call).
C1_AbortOnFirstFailure ==
  [][DrawFailed =>
       /\ calls' = calls
       /\ drawResult' = drawResult
       /\ pc' \in {"draw_returned", "wait_idle", "drop", "exited"}
       /\ (pc # "draw_returned" => pc' # "draw_returned")
       /\ (pc' # "draw_returned" => exitReason' = "draw_error")]_vars

\* C1 witness: the program has ended after a frame failed at acquire-image,
\* with earlier frames drawn.
C1_Witness ==
  /\ pc = "exited"
  /\ drawResult = "Couldn't acquire an image from the swapchain!"
  /\ exitReason = "draw_error"
  /\ calls = 2

OpOrder ==
  << "wait_for_fence", "reset_fence", "acquire_image", "record", "submit", "present" >>
FallibleOps == {"wait_for_fence", "reset_fence", "acquire_image", "present"}
OpSucceeded(o) == IF o.op \in FallibleOps THEN o.ok ELSE TRUE

\* C2: the GPU operations of a call are a prefix of wait-fence, reset-fence,
\* acquire-image, record, submit, present; an operation is only made when
\* every earlier one succeeded; a call that returned Ok made all six; the
\* fence waited on and reset is the one the submit signals; the submit waits
\* on the semaphore given to acquire-image and signals the render_finished
\* semaphore and the fence of the same slot; present waits on that
\* render_finished semaphore and presents the acquired image; the command
\* buffer recorded and submitted is the one of the acquired image.
C2_FrameOperationOrder ==
  /\ Len(ops) <= Len(OpOrder)
  /\ \A i \in 1..Len(ops) : ops[i].op = OpOrder[i]
  /\ \A i \in 1..Len(ops) : \A j \in 1..(i - 1) : OpSucceeded(ops[j])
  /\ drawResult = "Ok" => Len(ops) = 6 /\ ops[6].ok
  /\ (DrawFailed /\ pc # "unwind") => Len(ops) >= 1 /\ ~OpSucceeded(ops[Len(ops)])
  /\ Len(ops) >= 2 => ops[2].fence = ops[1].fence
  /\ Len(ops) >= 3 =>
       ops[3].sync = << "image_available_semaphore", ops[1].fence[2] >>
  /\ Len(ops) >= 4 => ops[4].buffer = << "command_buffer", ops[3].image >>
  /\ Len(ops) >= 5 =>
       /\ ops[5].wait = ops[3].sync
       /\ ops[5].signal = << "render_finished_semaphore", ops[3].sync[2] >>
       /\ ops[5].fence = << "fence", ops[3].sync[2] >>
       /\ ops[5].fence = ops[1].fence
       /\ ops[5].buffer = ops[4].buffer
  /\ Len(ops) >= 6 =>
       /\ ops[6].wait = ops[5].signal
       /\ ops[6].image = ops[3].image

\* C2 witness: a frame of the second slot went through all six operations
\* with the second image.
C2_Witness ==
  /\ pc = "draw_returned"
  /\ drawResult = "Ok"
  /\ Len(ops) = 6
  /\ slot = 1
  /\ image_index = 1

Pos(s, h) == CHOOSE i \in 1..Len(s) : s[i] = h
Released(h) == \E i \in 1..Len(destroyed) : destroyed[i] = h
ReleasedBefore(a, b) == Pos(destroyed, a) < Pos(destroyed, b)
OfKind(kinds) == { i \in 1..Len(created) : created[i][1] \in kinds }

TeardownKinds ==
  {"instance", "surface", "device", "swapchain", "render_pass", "image_view",
   "framebuffer", "command_pool", "image_available_semaphore",
   "render_finished_semaphore", "fence"}

\* C3: once the HalState has been dropped, any two of its handles (instance,
\* surface, device, swapchain, render pass, image views, framebuffers,
\* command pool, semaphores, fences) were released in the reverse of the
\* order of their creation.
C3_ReverseOrderTeardown ==
  pc = "exited" =>
    \A i \in OfKind(TeardownKinds) : \A j \in OfKind(TeardownKinds) :
      i < j => /\ Released(created[i]) /\ Released(created[j])
               /\ ReleasedBefore(created[j], created[i])

DeviceChildren ==
  {"fence", "image_available_semaphore", "render_finished_semaphore",
   "framebuffer", "image_view", "command_pool", "render_pass", "swapchain"}

\* C4: once the HalState has been dropped, every fence, semaphore,
\* framebuffer, image view, the command pool, the render pass and the
\* swapchain were released before the device, each framebuffer before its
\* image view and before the render pass, the device before the instance,
\* and the surface before the instance.
C4_LeafBeforeRoot ==
  pc = "exited" =>
    /\ \A i \in OfKind(DeviceChildren) :
         Released(created[i]) /\ ReleasedBefore(created[i], Handle("device"))
    /\ \A i \in OfKind({"framebuffer"}) :
         /\ ReleasedBefore(created[i], << "image_view", created[i][2] >>)
         /\ ReleasedBefore(created[i], Handle("render_pass"))
    /\ ReleasedBefore(Handle("device"), Handle("instance"))
    /\ ReleasedBefore(Handle("surface"), Handle("instance"))

LoopLeftByBreak == exitReason \in {"close", "draw_error"}

\* C5: when the loop was left by one of its two breaks, wait_until_idle is
\* called exactly once, after the last draw_clear_frame call and before any
\* handle is released; whatever it returns, the next step is the teardown,
\* which is never held back.
C5_WaitIdleBeforeTeardown ==
  /\ idleCalls <= 1
  /\ idleCalls = 1 => LoopLeftByBreak /\ idleAfterDraws = calls
                      /\ idleResult \in {"Ok", "Err"}
  /\ LoopLeftByBreak =>
       /\ pc \in {"wait_idle", "drop", "exited"}
       /\ idleCalls = (IF pc = "wait_idle" THEN 0 ELSE 1)
       /\ (destroyed # << >>) = (pc = "exited")
       /\ pc = "drop" => ENABLED DropHalState

\* C5 witness: the loop was left on a draw error, wait_until_idle failed
\* too, and the handles were released all the same.
C5_Witness ==
  /\ pc = "exited"
  /\ exitReason = "draw_error"
  /\ idleResult = "Err"
  /\ calls = 2
  /\ Released(Handle("device"))

\* An adapter with a queue family that supports graphics, has max_queues > 0
\* and is supported by the surface.
HasGraphicsQueue(a) ==
  \E i \in 1..Len(a.queue_families) :
    /\ a.queue_families[i].graphics
    /\ a.queue_families[i].max_queues > 0
    /\ a.queue_families[i].surface_ok

\* The errors a step of new can return.
StepErrors(step) ==
  CASE step = "new_select" -> {"Couldn't find a graphical Adapter!"}
    [] step = "new_device" -> {"Couldn't find a QueueFamily with graphics!",
                               "Couldn't open the PhysicalDevice!",
                               "Couldn't take ownership of the QueueGroup!",
                               "The QueueGroup did not have any CommandQueues available!"}
    [] step = "new_present_mode" -> {"No PresentMode values specified!"}
    [] step = "new_composite_alpha" -> {"No CompositeAlpha values specified!"}
    [] step = "new_format" -> {"Preferred format list was empty!"}
    [] step = "new_image_usage" -> {"The Surface isn't capable of supporting color!"}
    [] step = "new_swapchain" -> {"Failed to create the swapchain!"}
    [] step = "new_render_pass" -> {"Couldn't create a render pass!"}
    [] step = "new_image_views" -> {"Couldn't create the image_view for the image!"}
    [] step = "new_framebuffers" -> {"Failed to create a framebuffer!"}
    [] step = "new_command_pool" -> {"Could not create the raw command pool!"}
    [] step = "new_sync" -> {"Could not create a semaphore!", "Could not create a fence!"}
    [] OTHER -> {}

\* C6: a failing step of new ends new with one of that step's error strings
\* and nothing is created afterwards; the adapter selection fails, with
\* "Couldn't find a graphical Adapter!", exactly when no enumerated adapter
\* has a usable queue family, and then only the instance and the surface
\* exist (no device, no swapchain, nothing later); after an Err of new the
\* program panics without entering the loop: draw_clear_frame and
\* wait_until_idle are never called.
C6_NewFailsWithoutAdapter ==
  /\ [][pc = "new_select" =>
          IF \E i \in 1..Len(adapters) : HasGraphicsQueue(adapters[i])
          THEN pc' = "new_device" /\ newErr' = None
          ELSE /\ pc' = "new_failed"
               /\ newErr' = "Couldn't find a graphical Adapter!"
               /\ created' = created]_vars
  /\ [][(newErr = None /\ newErr' # None) =>
          pc' = "new_failed" /\ newErr' \in StepErrors(pc)]_vars
  /\ [][newErr # None =>
          /\ newErr' = newErr /\ created' = created
          /\ pc' \in {"new_failed", "panicked"}]_vars
  /\ [](newErr = "Couldn't find a graphical Adapter!" =>
          created = << Handle("instance"), Handle("surface") >>)
  /\ [](newErr # None =>
          /\ pc \in {"new_failed", "panicked"}
          /\ calls = 0 /\ ops = << >> /\ idleCalls = 0 /\ exitReason = None)

\* C6 witness: the program has panicked on the adapter error.
C6_Witness ==
  /\ pc = "panicked"
  /\ newErr = "Couldn't find a graphical Adapter!"
  /\ created = << Handle("instance"), Handle("surface") >>

CloseIn(evs) == \E i \in 1..Len(evs) : evs[i] = "CloseRequested"

\* C7: a frame is only drawn when every event of the iteration's poll has
\* been handled, at most one draw_clear_frame call is made per iteration,
\* and from the poll that holds a CloseRequested event on no call is made:
\* `running` stays false whatever events follow in the same poll, and
\* neither a poll nor a draw step follows.
C7_PollThenDraw ==
  /\ [](pc \in ({"draw_begin", "draw_returned"} \cup InCallPcs) =>
          pending = << >> /\ running /\ ~closeSeen)
  /\ [](iterDraws <= 1)
  /\ [](closeSeen => ~running)
  /\ [][(closeSeen \/ CloseIn(pending)) => calls' = calls]_vars
  /\ [][closeSeen => closeSeen' /\ pc' \notin LoopPcs \ {"poll_callback"}]_vars

\* C7 witness: CloseRequested was handled after frames were drawn, and a
\* Resized event of the same poll is still to be handled.
C7_Witness ==
  /\ pc = "poll_callback"
  /\ closeSeen
  /\ calls = 2
  /\ pending = << "Resized" >>

\* C8: a call that gets past the indexing and the modulo of lines 277-281
\* (one that returns Ok or Err) stores the old current_frame as the slot of
\* its fence and semaphores and advances current_frame to (old + 1) mod
\* frames_in_flight; nothing else changes current_frame, in particular no
\* failing step of the call, and frames_in_flight never changes once new
\* has set it.
C8_FrameAdvance ==
  /\ [][(calls' = calls + 1 /\ pc' # "unwind") =>
          /\ pc' = "draw_wait"
          /\ slot' = current_frame
          /\ current_frame' = (current_frame + 1) % frames_in_flight]_vars
  /\ [][(calls' = calls /\ pc \notin NewPcs) => current_frame' = current_frame]_vars
  /\ [][pc \notin NewPcs => frames_in_flight' = frames_in_flight]_vars
  /\ [](pc \in (InCallPcs \cup {"draw_returned"}) =>
          /\ current_frame = (slot + 1) % frames_in_flight
          /\ \A i \in 1..Len(ops) :
               CASE ops[i].op \in {"wait_for_fence", "reset_fence"} ->
                      ops[i].fence = << "fence", slot >>
                 [] ops[i].op = "acquire_image" ->
                      ops[i].sync = << "image_available_semaphore", slot >>
                 [] ops[i].op = "submit" ->
                      /\ ops[i].wait = << "image_available_semaphore", slot >>
                      /\ ops[i].signal = << "render_finished_semaphore", slot >>
                      /\ ops[i].fence = << "fence", slot >>
                 [] ops[i].op = "present" ->
                      ops[i].wait = << "render_finished_semaphore", slot >>
                 [] OTHER -> TRUE)

\* C8 witness: a call on the last slot failed at reset-fence and
\* current_frame has wrapped to 0.
C8_Witness ==
  /\ pc = "draw_returned"
  /\ drawResult = "Couldn't reset the fence!"
  /\ frames_in_flight = 2
  /\ slot = 1
  /\ current_frame = 0

\* C9: the present mode picked is the first of Mailbox, Fifo, Relaxed,
\* Immediate that the surface supports, the composite alpha the first of
\* Opaque, Inherit, PreMultiplied, PostMultiplied; new fails with "No
\* PresentMode values specified!" / "No CompositeAlpha values specified!"
\* exactly when none of the four is supported, and at no other step.
C9_FirstSupportedChoice ==
  /\ [][pc = "new_present_mode" =>
          IF \E m \in {"Mailbox", "Fifo", "Relaxed", "Immediate"} : m \in present_modes
          THEN /\ pc' = "new_composite_alpha" /\ newErr' = None
               /\ present_mode' =
                    IF "Mailbox" \in present_modes THEN "Mailbox"
                    ELSE IF "Fifo" \in present_modes THEN "Fifo"
                    ELSE IF "Relaxed" \in present_modes THEN "Relaxed"
                    ELSE "Immediate"
          ELSE pc' = "new_failed" /\ newErr' = "No PresentMode values specified!"]_vars
  /\ [][pc = "new_composite_alpha" =>
          IF \E c \in {"Opaque", "Inherit", "PreMultiplied", "PostMultiplied"} :
               c \in composite_alphas
          THEN /\ pc' = "new_format" /\ newErr' = None
               /\ composite_alpha' =
                    IF "Opaque" \in composite_alphas THEN "Opaque"
                    ELSE IF "Inherit" \in composite_alphas THEN "Inherit"
                    ELSE IF "PreMultiplied" \in composite_alphas THEN "PreMultiplied"
                    ELSE "PostMultiplied"
          ELSE pc' = "new_failed" /\ newErr' = "No CompositeAlpha values specified!"]_vars
  /\ [][(newErr = None /\ newErr' = "No PresentMode values specified!") =>
          pc = "new_present_mode"]_vars
  /\ [][(newErr = None /\ newErr' = "No CompositeAlpha values specified!") =>
          pc = "new_composite_alpha"]_vars

\* C9 witness: Relaxed and PreMultiplied were picked, neither the first
\* entry of its list.
C9_Witness ==
  /\ pc = "new_format"
  /\ present_mode = "Relaxed"
  /\ composite_alpha = "PreMultiplied"

\* C10: the image count computed by new is min(end - 1, 3) for Mailbox and
\* min(end - 1, 2) otherwise, end - 1 does not underflow, and the count is
\* at least 1 and inside caps.image_count (start <= count < end).
C10_ImageCountInRange ==
  pc = "new_image_usage" =>
    /\ caps.image_count_end >= 1
    /\ image_count = Min(caps.image_count_end - 1,
                         IF present_mode = "Mailbox" THEN 3 ELSE 2)
    /\ image_count >= 1
    /\ caps.image_count_start <= image_count
    /\ image_count < caps.image_count_end

\* The states in which a HalState returned by new exists and has not yet
\* been dropped or started to unwind.
Constructed == pc \in LoopPcs \cup {"draw_returned", "wait_idle", "drop"}

\* C11: in every state of a constructed HalState, whatever number of images
\* the swapchain returned, frames_in_flight is at least 1, current_frame is
\* in 0..frames_in_flight-1 and below the lengths of in_flight_fences,
\* image_available_semaphores and render_finished_semaphores, and an image
\* index returned by acquire_image is a valid index into command_buffers
\* and framebuffers.
C11_FrameIndexValid ==
  /\ Constructed =>
       /\ frames_in_flight >= 1
       /\ 0 <= current_frame
       /\ current_frame < frames_in_flight
       /\ current_frame < Len(in_flight_fences)
       /\ current_frame < Len(image_available_semaphores)
       /\ current_frame < Len(render_finished_semaphores)
  /\ pc = "draw_record" =>
       /\ 0 <= image_index
       /\ image_index < Len(command_buffers)
       /\ image_index < Len(framebuffers)

\* C12: no call of draw_clear_frame blocks forever on its in-flight fence,
\* for any sequence of calls, calls after a failed call included: every
\* fence is created signaled, and a fence that is waited on is either still
\* signaled or has a pending submission that will signal it.
C12_WaitedFenceWillSignal ==
  /\ pc = "new_return" =>
       \A i \in 1..Len(in_flight_fences) : in_flight_fences[i] = "signaled"
  /\ pc = "draw_wait" => in_flight_fences[slot + 1] \in {"signaled", "pending"}

====
